---- MODULE Spec2Model ----
(***************************************************************************)
(* Model of the self-correcting generation loop (src/src/text/text.ts,     *)
(* class AIPrompt) and of the agent function adapter                       *)
(* (src/unnamed/part_000, processChildAgentFunction and its helpers).      *)
(*                                                                         *)
(* Texts are sequences of one-character strings, so that trimming and      *)
(* decoding are computed and not assumed.                                  *)
(***************************************************************************)
EXTENDS Integers, Sequences, FiniteSets, TLC

(***************************************************************************)
(* Bounds of the model.                                                    *)
(***************************************************************************)
\* largest argument a caller gives to setMaxSteps
MaxStepsArg == 2

MaxRuns == 2

(***************************************************************************)
(* Program constants.                                                      *)
(***************************************************************************)
\* private maxSteps = 20
DefaultMaxSteps == 20

\* const retryCount = 3
retryCount == 3

(***************************************************************************)
(* Texts.                                                                  *)
(***************************************************************************)
Sp == " "

Letters == {"a", "b", "f"}

RECURSIVE TrimLeft(_)
TrimLeft(t) == IF t # <<>> /\ Head(t) = Sp THEN TrimLeft(Tail(t)) ELSE t

RECURSIVE TrimRight(_)
TrimRight(t) ==
  IF t # <<>> /\ t[Len(t)] = Sp THEN TrimRight(SubSeq(t, 1, Len(t) - 1)) ELSE t

\* String.prototype.trim
Trim(t) == TrimRight(TrimLeft(t))

\* a completion response: results.at(0)?.text may be absent
NoResult == [has |-> FALSE, text |-> <<>>]

Resp(t) == [has |-> TRUE, text |-> t]

\* the text taken without trimming
ResultTextUntrimmed(r) == IF r.has THEN r.text ELSE <<>>

\* res.results.at(0)?.text?.trim() ?? ''
ResultText(r) == IF r.has THEN Trim(r.text) ELSE <<>>

(***************************************************************************)
(* Decoders.  A decoded value is a record; form "text" is the undecoded    *)
(* string itself.                                                          *)
(***************************************************************************)
KeyChars == Letters \cup {Sp}

\* the colons at which /([a-zA-Z ]+):\s{0,}\n?(((?!N\/A).)+)$/ can match
MapColons(t) ==
  {c \in 2..(Len(t) - 1) : t[c] = ":" /\ t[c - 1] \in KeyChars}

StringToMapOk(t) == MapColons(t) # {}

RECURSIVE KeyStart(_, _)
\* first index of the run of key characters that ends at index c
KeyStart(t, c) ==
  IF c > 1 /\ t[c - 1] \in KeyChars THEN KeyStart(t, c - 1) ELSE c

\* stringToMap: the key before the first matching colon and the value after it
StringToMap(t) ==
  LET c == CHOOSE x \in MapColons(t) : \A y \in MapColons(t) : x <= y
  IN  [form |-> "map",
       key |-> SubSeq(t, KeyStart(t, c - 1), c - 1),
       val |-> TrimLeft(SubSeq(t, c + 1, Len(t)))]

\* stringToObject accepts a text of the form { ... }
StringToObjectOk(t) == Len(t) >= 2 /\ t[1] = "{" /\ t[Len(t)] = "}"

StringToObject(t) ==
  [form |-> "object", key |-> <<>>, val |-> SubSeq(t, 2, Len(t) - 1)]

PlainValue(t) == [form |-> "text", key |-> <<>>, val |-> t]

\* a plain text run through the key-value decoder
DecodeSucceedsMapByDefault(m, t) ==
  IF m = "schema" THEN StringToObjectOk(t) ELSE StringToMapOk(t)

\* whether the try block of the retry loop completes without throwing
DecodeSucceeds(m, t) ==
  IF m = "keyValue" THEN StringToMapOk(t)
  ELSE IF m = "schema" THEN StringToObjectOk(t)
  ELSE TRUE

\* fvalue of the retry loop
DecodeValue(m, t) ==
  IF m = "keyValue" THEN StringToMap(t)
  ELSE IF m = "schema" THEN StringToObject(t)
  ELSE PlainValue(t)

DecodeError(m) ==
  IF m = "keyValue" THEN "Expected format is a list of key: value"
  ELSE "decode error"

(***************************************************************************)
(* Error messages.                                                         *)
(***************************************************************************)
Msg(text) == [m |-> text, n |-> 0]

EmptyMsg == Msg("Empty response received")

DuplicateMsg == Msg("Duplicate response received")

UnableMsg == Msg("Unable to fix result syntax")

\* `max ${this.maxSteps} steps allowed`
MaxStepsMsg(n) == [m |-> "max N steps allowed", n |-> n]

(***************************************************************************)
(* Inputs of the generation loop.                                          *)
(***************************************************************************)
Unkeyed == "undefined"

SessionIds == {Unkeyed, "s1"}

Queries == {"q1"}

Modes == {"plain", "keyValue", "schema"}

\* this.conf.functions, by name
FunctionConfigs == {<<>>, <<"fnA", "fnB">>, <<"fnA", "finalResult">>}

\* what the completion service answers in a step of the function loop
StepResponses ==
  {NoResult, Resp(<<>>), Resp(<<Sp>>), Resp(<<Sp, "a", Sp>>), Resp(<<"b">>),
   Resp(<<"f", Sp>>)}

\* what it answers to the single request and to a repair request
TextResponses ==
  {NoResult, Resp(<<Sp>>), Resp(<<"a">>), Resp(<<"a", ":", "b", Sp>>),
   Resp(<<Sp, "{", "}">>)}

\* what the finalResult callable returns (result may be undefined)
FinalOutputs == {NoResult, Resp(<<"{", "}">>), Resp(<<"a", ":", "b">>), Resp(<<"a">>)}

OldEntry(s) == [kind |-> "old", query |-> s, resp |-> <<>>, sep |-> "", out |-> <<>>]

EmptyMemory == [s \in SessionIds |-> <<>>]

UsedMemory == [s \in SessionIds |-> <<OldEntry(s)>>]

(***************************************************************************)
(* State.                                                                  *)
(***************************************************************************)
VARIABLES
  functions,      \* this.conf.functions, the configured callables by name
  mode,           \* this.conf.responseConfig: plain, keyValue or schema
  maxSteps,       \* this.maxSteps
  mem,            \* the session-keyed memory handed to generate
  plan,           \* the answers the service will give to the text requests
  planPos,        \* the next answer of plan
  pc,             \* where the run of generate stands
  sessionId,      \* sessionId of the run
  query,          \* query of the run
  stepI,          \* i of the step loop of _generateWithFunctions
  previousValue,  \* previousValue of _generateWithFunctions
  value,          \* value: the text being executed or decoded
  retryI,         \* i of the retry loop of _generateHandler
  traces,         \* the traces of the run's AI wrapper, one per completion call
  outcome,        \* what generate returned or threw
  log,            \* history: the events of the run in order
  capChanged,     \* history: setMaxSteps was called after the run started
  debug,          \* this.debug
  sink,           \* what the run's wrapper was told to log, in order
  configured,     \* history: this.conf.functions as the constructor got it
  runs            \* history: how many runs of generate were started

confVars == <<functions, mode, maxSteps, debug>>

envVars == <<mem, plan, planPos>>

runVars == <<pc, sessionId, query, stepI, previousValue, value, retryI, traces, outcome,
            sink>>

histVars == <<log, capChanged, configured, runs>>

genVars == <<confVars, envVars, runVars, histVars>>

VARIABLES
  child,          \* the child agent's exposed callable (childFunction)
  parentValues,   \* the parent's input values
  parentInputKeys,\* the parent's declared input field names, in order
  modelList,      \* the model list of the service, if any
  options,        \* the policy handed to processChildAgentFunction
  adapted,        \* the callable processChildAgentFunction returned
  callerArgs,     \* the arguments the adapted callable was invoked with
  delivered,      \* the arguments that reached the child's original func
  apc             \* where the adaptation stands

adVars == <<child, parentValues, parentInputKeys, modelList, options, adapted,
            callerArgs, delivered, apc>>

VARIABLES
  ctorArgs,       \* the arguments the agent is constructed with
  agent,          \* the constructed agent, if the constructor returned
  features,       \* what getFeatures last reported
  exposed,        \* the callable getFunction last returned
  lastOp,         \* the last operation on the agent and how it ended
  forwardCount,   \* how many times forward was entered
  gpc             \* where the agent stands

agVars == <<ctorArgs, agent, features, exposed, lastOp, forwardCount, gpc>>

VARIABLES
  schemas,        \* the parameter-shape objects, by reference
  callables,      \* the callable objects, by reference
  original,       \* the child's callable as it was first exposed
  parents,        \* what each parent hands to processChildAgentFunction
  adaptedBy,      \* the reference of the callable each parent last got
  reachedChild,   \* the arguments last handed to the child's original func
  cur,            \* the reference of the shape the projections have reached
  projLog,        \* the projections made, in order
  hpc             \* which use of the objects is being followed

heapVars == <<schemas, callables, original, parents, adaptedBy, reachedChild,
              cur, projLog, hpc>>

VARIABLES
  owner,          \* the agent whose forward is called, with its callables and children
  handover,       \* what forward last handed to the program
  forwards        \* how many times forward or streamingForward was called

fwVars == <<owner, handover, forwards>>

vars == <<genVars, adVars, agVars, heapVars, fwVars>>

Undefined == [def |-> FALSE, text |-> <<>>]

Defined(t) == [def |-> TRUE, text |-> t]

NoOutcome == [kind |-> "none", msg |-> Msg(""), value |-> PlainValue(<<>>)]

Returned(v) == [kind |-> "value", msg |-> Msg(""), value |-> v]

Thrown(msg) == [kind |-> "error", msg |-> msg, value |-> PlainValue(<<>>)]

(***************************************************************************)
(* Memory: add appends to the session's sequence, history reads it.        *)
(***************************************************************************)
MemHistory(m, s) == m[s]

MemAdd(m, s, e) == [m EXCEPT ![s] = Append(@, e)]

(***************************************************************************)
(* Traces of the AI wrapper: generate opens a trace, its answer fills in   *)
(* the response, getTrace is the trace of the latest call.                 *)
(***************************************************************************)
NewTrace(p) ==
  [prompt |-> p, response |-> FALSE, parsingError |-> <<>>,
   functions |-> <<>>, finalError |-> <<>>]

HasTrace(tr) == tr # <<>> /\ tr[Len(tr)].response

WithResponse(tr) == [tr EXCEPT ![Len(tr)].response = TRUE]

\* trace.response.parsingError = { error, data }
WithParsingError(tr, err, data) ==
  IF HasTrace(tr)
  THEN [tr EXCEPT ![Len(tr)].parsingError = <<[error |-> err, data |-> data]>>]
  ELSE tr

\* trace.response.functions = [...(trace.response.functions ?? []), funcExec]
WithFunction(tr, name) ==
  IF HasTrace(tr)
  THEN [tr EXCEPT ![Len(tr)].functions = Append(@, name)]
  ELSE tr

\* the catch block leaving the trace as it found it
WithFinalErrorSkipped(tr, msg) == tr

\* trace.finalError = err.message
WithFinalError(tr, msg) ==
  IF HasTrace(tr) THEN [tr EXCEPT ![Len(tr)].finalError = <<msg>>] ELSE tr

(***************************************************************************)
(* Expressions of the loop.                                                *)
(***************************************************************************)
\* prompt(query, history)
PromptOf(q, hist) == [kind |-> "query", query |-> q, hist |-> hist, err |-> "", prev |-> <<>>]

\* `${mem.history()}\nSyntax Error: ${error.message}\n${value}`
FixPromptOf(hist, err, v) ==
  [kind |-> "fix", query |-> "", hist |-> hist, err |-> err, prev |-> v]

\* the loop bound off by one
StepGuardInclusive(i, n) == i <= n

\* i < this.maxSteps
StepGuard(i, n) == i < n

\* the truthiness test alone, without the comparison
IsDuplicateTruthyOnly(prev, v) == prev.def /\ prev.text # <<>>

\* previousValue && value === previousValue
IsDuplicate(prev, v) == prev.def /\ prev.text # <<>> /\ v = prev.text

\* funcExec.result ?? '' , and the text join('') gives an undefined result
OutText(out) == IF out.has THEN out.text ELSE <<>>

\* the entry without the execution output
StepEntryNoResult(v, out) ==
  [kind |-> "step", query |-> "", resp |-> v, sep |-> "Result: ", out |-> <<>>]

\* ['\n', value, '\nResult: ', funcExec.result].join('')
StepEntry(v, out) ==
  [kind |-> "step", query |-> "", resp |-> v, sep |-> "Result: ", out |-> OutText(out)]

\* [queryPrefix, query, responsePrefix, value].join('')
DefaultEntry(q, v) ==
  [kind |-> "default", query |-> q, resp |-> v, sep |-> "", out |-> <<>>]

\* any executed function taken for the final one
IsAnyFunction(name) == name # ""

\* the retry bound off by one
RetryGuardInclusive(i) == i <= retryCount

\* i < retryCount
RetryGuard(i) == i < retryCount

\* i < retryCount - 1
AttemptsToSpare(i) == i < retryCount - 1

\* funcExec.name.localeCompare('finalResult') === 0
IsFinalResult(name) == name = "finalResult"

Names(fs) == {fs[k] : k \in 1..Len(fs)}

\* the callable a response text asks for
ParseCall(v) ==
  IF v = <<>> THEN ""
  ELSE IF v[1] = "a" THEN "fnA"
  ELSE IF v[1] = "b" THEN "fnB"
  ELSE IF v[1] = "f" THEN "finalResult"
  ELSE ""

\* processFunction: the name of the callable of fs that was executed, if any
ExecName(v, fs) == IF ParseCall(v) \in Names(fs) THEN ParseCall(v) ELSE ""

\* processFunction: the results the executed callable can give
ExecOutputs(name) ==
  IF name = "" THEN {NoResult}
  ELSE IF name = "finalResult" THEN FinalOutputs
  ELSE {Resp(<<"r">>)}

\* the answers the service can give to the single request or a repair request
NextTexts == IF planPos <= Len(plan) THEN {plan[planPos]} ELSE TextResponses

\* the third answer is never requested by a run without callables; it says
\* what the service would answer to a second repair request
Plans ==
  TextResponses \X TextResponses
                \X {Resp(<<"a", ":", "b", Sp>>), Resp(<<Sp, "{", "}">>)}

(***************************************************************************)
(* Events of the history variable log.                                     *)
(***************************************************************************)
CallEv(kind, key, p) == [e |-> "call", kind |-> kind, key |-> key, prompt |-> p]

RespEv(kind, r, t) == [e |-> "response", kind |-> kind, raw |-> r, text |-> t]

ExecEv(name, out) == [e |-> "exec", name |-> name, out |-> out]

AddEv(key, entry) == [e |-> "add", key |-> key, entry |-> entry]

DecodeEv(t, ok) == [e |-> "decode", text |-> t, ok |-> ok]

(***************************************************************************)
(* The generation loop.                                                    *)
(***************************************************************************)
\* ai.consoleLogTrace() and ai.logTrace(): the traces as they are when told
Logged(to, tr) == [to |-> to, traces |-> tr]

\* _generate: the finally block
Finally(dbg, sk, tr) ==
  (IF dbg THEN Append(sk, Logged("console", tr)) ELSE sk) \o <<Logged("log", tr)>>

\* _generate: the catch block records the error on the current trace and
\* rethrows its message; tr and lg are the traces and the log so far
Throw(msg, tr, lg) ==
  /\ pc' = "done"
  /\ traces' = WithFinalError(tr, msg)
  /\ sink' = Finally(debug, sink, WithFinalError(tr, msg))
  /\ outcome' = Thrown(msg)
  /\ log' = lg

\* generate -> _generate -> _generateHandler, up to the first await
Generate(s, q) ==
  /\ pc = "idle"
  /\ sessionId' = s
  /\ query' = q
  /\ IF Len(functions) > 0
     THEN \* _generateWithFunctions: conf.functions is this.conf.functions
          /\ functions' = IF mode = "schema"
                          THEN Append(functions, "finalResult")
                          ELSE functions
          /\ pc' = "wf_loop"
          /\ UNCHANGED <<traces, log>>
     ELSE \* _generateDefault: the prompt is built and the request issued
          /\ pc' = "df_await"
          /\ traces' = Append(traces, NewTrace(PromptOf(q, MemHistory(mem, s))))
          /\ log' = Append(log, CallEv("default", s, PromptOf(q, MemHistory(mem, s))))
          /\ UNCHANGED functions
  /\ runs' = runs + 1
  /\ UNCHANGED <<mode, maxSteps, debug, envVars, stepI, previousValue, value,
                 retryI, outcome, sink, capChanged, configured, adVars, agVars,
                 heapVars, fwVars>>

\* one more step: the prompt is built from the history and the request issued
StepBegin ==
  /\ pc = "wf_loop"
  /\ StepGuard(stepI, maxSteps)
  /\ pc' = "wf_await"
  /\ traces' = Append(traces, NewTrace(PromptOf(query, MemHistory(mem, sessionId))))
  /\ log' = Append(log, CallEv("step", sessionId,
                               PromptOf(query, MemHistory(mem, sessionId))))
  /\ UNCHANGED <<confVars, envVars, sessionId, query, stepI, previousValue,
                 value, retryI, outcome, sink, capChanged, configured, runs,
                 adVars, agVars, heapVars, fwVars>>

\* the step loop ran out: throw `max N steps allowed`
StepBudgetExceeded ==
  /\ pc = "wf_loop"
  /\ ~StepGuard(stepI, maxSteps)
  /\ Throw(MaxStepsMsg(maxSteps), traces, log)
  /\ UNCHANGED <<confVars, envVars, sessionId, query, stepI, previousValue,
                 value, retryI, capChanged, configured, runs,
                 adVars, agVars, heapVars, fwVars>>

\* the answer of a step arrives: trim, duplicate check, empty check, and the
\* call of processFunction
StepResponse(r) ==
  /\ pc = "wf_await"
  /\ LET v == ResultText(r)
         tr == WithResponse(traces)
         lg == Append(log, RespEv("step", r, v))
     IN  IF IsDuplicate(previousValue, v)
         THEN Throw(DuplicateMsg, tr, lg) /\ UNCHANGED value
         ELSE IF Len(v) = 0
         THEN Throw(EmptyMsg, tr, lg) /\ UNCHANGED value
         ELSE /\ value' = v
              /\ pc' = "wf_exec"
              /\ traces' = tr
              /\ log' = lg
              /\ UNCHANGED <<outcome, sink>>
  /\ UNCHANGED <<confVars, envVars, sessionId, query, stepI, previousValue,
                 retryI, capChanged, configured, runs,
                 adVars, agVars, heapVars, fwVars>>

\* processFunction returns: memory append, trace, and the finalResult test
StepExec(out) ==
  /\ pc = "wf_exec"
  /\ LET name == ExecName(value, functions)
         entry == StepEntry(value, out)
     IN  /\ out \in ExecOutputs(name)
         /\ mem' = MemAdd(mem, sessionId, entry)
         /\ traces' = WithFunction(traces, name)
         /\ log' = log \o <<ExecEv(name, out), AddEv(sessionId, entry)>>
         /\ IF IsFinalResult(name)
            THEN \* return [res, funcExec.result ?? '']
                 /\ value' = OutText(out)
                 /\ retryI' = 0
                 /\ pc' = "decode"
                 /\ UNCHANGED <<previousValue, stepI>>
            ELSE /\ previousValue' = Defined(value)
                 /\ stepI' = stepI + 1
                 /\ pc' = "wf_loop"
                 /\ UNCHANGED <<value, retryI>>
  /\ UNCHANGED <<confVars, plan, planPos, sessionId, query, outcome, sink,
                 capChanged, configured, runs,
                 adVars, agVars, heapVars, fwVars>>

\* the answer of the single request arrives
DefaultResponse(r) ==
  /\ pc = "df_await"
  /\ r \in NextTexts
  /\ planPos' = planPos + 1
  /\ LET v == ResultText(r)
         tr == WithResponse(traces)
         lg == Append(log, RespEv("default", r, v))
     IN  IF Len(v) = 0
         THEN Throw(EmptyMsg, tr, lg) /\ UNCHANGED <<mem, value, retryI>>
         ELSE /\ mem' = MemAdd(mem, sessionId, DefaultEntry(query, v))
              /\ value' = v
              /\ retryI' = 0
              /\ pc' = "decode"
              /\ traces' = tr
              /\ log' = Append(lg, AddEv(sessionId, DefaultEntry(query, v)))
              /\ UNCHANGED <<outcome, sink>>
  /\ UNCHANGED <<confVars, plan, sessionId, query, stepI, previousValue,
                 capChanged, configured, runs,
                 adVars, agVars, heapVars, fwVars>>

\* an attempt of the retry loop decodes value and returns
DecodeReturn ==
  /\ pc = "decode"
  /\ RetryGuard(retryI)
  /\ DecodeSucceeds(mode, value)
  /\ pc' = "done"
  /\ sink' = Finally(debug, sink, traces)
  /\ outcome' = Returned(DecodeValue(mode, value))
  /\ log' = Append(log, DecodeEv(value, TRUE))
  /\ UNCHANGED <<confVars, envVars, sessionId, query, stepI, previousValue,
                 value, retryI, traces, capChanged, configured, runs,
                 adVars, agVars, heapVars, fwVars>>

\* an attempt fails with attempts to spare: record the error and continue
DecodeRetry ==
  /\ pc = "decode"
  /\ RetryGuard(retryI)
  /\ ~DecodeSucceeds(mode, value)
  /\ AttemptsToSpare(retryI)
  /\ traces' = WithParsingError(traces, DecodeError(mode), value)
  /\ retryI' = retryI + 1
  /\ log' = Append(log, DecodeEv(value, FALSE))
  /\ UNCHANGED <<confVars, envVars, pc, sessionId, query, stepI, previousValue,
                 value, outcome, sink, capChanged, configured, runs,
                 adVars, agVars, heapVars, fwVars>>

\* the last attempt fails: record the error and call fixSyntax, whose prompt
\* is built from mem.history() and whose request is issued
DecodeFix ==
  /\ pc = "decode"
  /\ RetryGuard(retryI)
  /\ ~DecodeSucceeds(mode, value)
  /\ ~AttemptsToSpare(retryI)
  /\ LET p == FixPromptOf(MemHistory(mem, Unkeyed), DecodeError(mode), value)
     IN  /\ traces' = Append(WithParsingError(traces, DecodeError(mode), value),
                             NewTrace(p))
         /\ log' = log \o <<DecodeEv(value, FALSE), CallEv("repair", Unkeyed, p)>>
  /\ pc' = "fix_await"
  /\ UNCHANGED <<confVars, envVars, sessionId, query, stepI, previousValue,
                 value, retryI, outcome, sink, capChanged, configured, runs,
                 adVars, agVars, heapVars, fwVars>>

\* the answer of fixSyntax arrives: value = fixedValue, and the loop goes on
FixResponse(r) ==
  /\ pc = "fix_await"
  /\ r \in NextTexts
  /\ planPos' = planPos + 1
  /\ LET fixedValue == ResultText(r)
         tr == WithResponse(traces)
         lg == Append(log, RespEv("repair", r, fixedValue))
     IN  IF Len(fixedValue) = 0
         THEN Throw(EmptyMsg, tr, lg) /\ UNCHANGED <<value, retryI>>
         ELSE /\ value' = fixedValue
              /\ retryI' = retryI + 1
              /\ pc' = "decode"
              /\ traces' = tr
              /\ log' = lg
              /\ UNCHANGED <<outcome, sink>>
  /\ UNCHANGED <<confVars, mem, plan, sessionId, query, stepI, previousValue,
                 capChanged, configured, runs,
                 adVars, agVars, heapVars, fwVars>>

\* the retry loop ran out: throw `Unable to fix result syntax`
RetryExhausted ==
  /\ pc = "decode"
  /\ ~RetryGuard(retryI)
  /\ Throw(UnableMsg, traces, log)
  /\ UNCHANGED <<confVars, envVars, sessionId, query, stepI, previousValue,
                 value, retryI, capChanged, configured, runs,
                 adVars, agVars, heapVars, fwVars>>

\* setMaxSteps(n), before the run or while its step loop runs (this.maxSteps
\* is read by the step loop only)
SetMaxSteps(n) ==
  /\ pc \in {"idle", "wf_loop", "wf_await", "wf_exec"}
  /\ maxSteps' = n
  /\ capChanged' = (capChanged \/ pc # "idle")
  /\ UNCHANGED <<functions, mode, debug, envVars, runVars, log, configured, runs,
                 adVars, agVars, heapVars, fwVars>>

\* the caller has the outcome and turns to the same AIPrompt for another
\* run: generate makes a new wrapper and, given no memory, a new Memory();
\* this.conf and this.maxSteps are as the earlier runs left them
Rerun ==
  /\ pc = "done"
  /\ runs < MaxRuns
  /\ pc' = "idle"
  /\ mem' = EmptyMemory
  /\ planPos' = 1
  /\ sessionId' = Unkeyed
  /\ query' = ""
  /\ stepI' = 0
  /\ previousValue' = Undefined
  /\ value' = <<>>
  /\ retryI' = 0
  /\ traces' = <<>>
  /\ outcome' = NoOutcome
  /\ sink' = <<>>
  /\ log' = <<>>
  /\ capChanged' = FALSE
  /\ UNCHANGED <<confVars, plan, configured, runs, adVars, agVars, heapVars, fwVars>>

GenInit ==
  /\ functions \in FunctionConfigs
  /\ mode \in Modes
  \* <<fnA, fnB>> is run with a declared output shape, which supplies finalResult
  /\ (functions = <<"fnA", "fnB">> => mode = "schema")
  /\ maxSteps = DefaultMaxSteps
  /\ mem \in {EmptyMemory, UsedMemory}
  /\ plan \in (IF functions = <<>> THEN Plans ELSE {<<>>})
  /\ planPos = 1
  /\ pc = "idle"
  /\ sessionId = Unkeyed
  /\ query = ""
  /\ stepI = 0
  /\ previousValue = Undefined
  /\ value = <<>>
  /\ retryI = 0
  /\ traces = <<>>
  /\ outcome = NoOutcome
  /\ log = <<>>
  /\ capChanged = FALSE
  \* this.debug = conf.debug || false; the mirrored runs start on a fresh memory
  /\ debug \in BOOLEAN
  /\ (debug => mem = EmptyMemory)
  /\ sink = <<>>
  /\ configured = functions
  /\ runs = 0

(***************************************************************************)
(* Parameter shapes (AxFunctionJSONSchema) and the schema helpers.         *)
(***************************************************************************)
Keys == {"region", "topic", "model"}

NoParams ==
  [present |-> FALSE, hasProps |-> FALSE, props |-> <<>>,
   hasRequired |-> FALSE, required |-> <<>>]

Field == [type |-> "string", enum |-> <<>>, description |-> <<>>]

Shape(ks, hasReq, req) ==
  [present |-> TRUE, hasProps |-> TRUE, props |-> [k \in ks |-> Field],
   hasRequired |-> hasReq, required |-> req]

SeqSet(q) == {q[k] : k \in 1..Len(q)}

PropKeys(sch) == IF sch.hasProps THEN DOMAIN sch.props ELSE {}

\* the properties deleted, the required list left as it was
removePropertiesOnly(schema, keys) ==
  [schema EXCEPT
     !.props = IF schema.hasProps
               THEN [k \in (DOMAIN schema.props) \ SeqSet(keys) |-> schema.props[k]]
               ELSE @]

\* removePropertiesFromSchema
removePropertiesFromSchema(schema, keys) ==
  [schema EXCEPT
     !.props = IF schema.hasProps
               THEN [k \in (DOMAIN schema.props) \ SeqSet(keys) |-> schema.props[k]]
               ELSE @,
     !.required = IF schema.hasRequired
                  THEN SelectSeq(@, LAMBDA r : r \notin SeqSet(keys))
                  ELSE @]

\* the model property: an enum of the model keys, described one by one
ModelProperty(models) ==
  [type |-> "string",
   enum |-> [k \in 1..Len(models) |-> models[k].key],
   description |-> models]

\* the model field written whether or not the shape has one
addModelParameterAlways(parameters, models) ==
  LET baseProps == IF parameters.hasProps THEN parameters.props ELSE <<>>
  IN  [present |-> TRUE, hasProps |-> TRUE,
       props |-> [k \in (DOMAIN baseProps) \cup {"model"} |->
                    IF k = "model" THEN ModelProperty(models) ELSE baseProps[k]],
       hasRequired |-> TRUE,
       required |-> Append(parameters.required, "model")]

\* addModelParameter
addModelParameter(parameters, models) ==
  LET baseSchema == IF parameters.present
                    THEN parameters
                    ELSE [present |-> TRUE, hasProps |-> TRUE, props |-> <<>>,
                          hasRequired |-> TRUE, required |-> <<>>]
      baseProps == IF baseSchema.hasProps THEN baseSchema.props ELSE <<>>
      baseRequired == IF baseSchema.hasRequired THEN baseSchema.required ELSE <<>>
  IN  IF "model" \in PropKeys(baseSchema)
      THEN baseSchema
      ELSE [baseSchema EXCEPT
              !.hasProps = TRUE,
              !.props = [k \in (DOMAIN baseProps) \cup {"model"} |->
                           IF k = "model" THEN ModelProperty(models) ELSE baseProps[k]],
              !.hasRequired = TRUE,
              !.required = Append(baseRequired, "model")]

\* pick: the properties of obj named by keys that obj has
pick(obj, keys) == [k \in SeqSet(keys) \cap DOMAIN obj |-> obj[k]]

\* { ...a, ...b }
Spread(a, b) ==
  [k \in (DOMAIN a) \cup (DOMAIN b) |-> IF k \in DOMAIN b THEN b[k] ELSE a[k]]

(***************************************************************************)
(* The function adapter.                                                   *)
(***************************************************************************)
\* a func that calls the child's own func directly
OriginalFunc == [wrapped |-> FALSE, keys |-> <<>>, values |-> <<>>]

\* the wrapper that injects the parent's values for the injection keys
WrappedFunc(keys, values) == [wrapped |-> TRUE, keys |-> keys, values |-> values]

\* the common keys, with the exclusions left in
InjectionKeysIgnoringExclusions(parameters, parentKeys, excluded) ==
  LET childKeys == PropKeys(parameters)
  IN  SelectSeq(SelectSeq(parentKeys, LAMBDA k : k \in childKeys),
                LAMBDA k : k # "model")

\* injectionKeys of processChildAgentFunction
InjectionKeys(parameters, parentKeys, excluded) ==
  LET childKeys == PropKeys(parameters)
      commonKeys == SelectSeq(SelectSeq(parentKeys, LAMBDA k : k \in childKeys),
                              LAMBDA k : k # "model")
  IN  SelectSeq(commonKeys, LAMBDA k : k \notin SeqSet(excluded))

\* processChildAgentFunction
processChildAgentFunction(childFunction, pValues, pKeys, models, opts) ==
  IF childFunction.parameters.present
  THEN LET injectionKeys ==
             InjectionKeys(childFunction.parameters, pKeys,
                           opts.excludeFieldsFromPassthrough)
       IN  IF Len(injectionKeys) > 0
           THEN [childFunction EXCEPT
                   !.parameters = removePropertiesFromSchema(@, injectionKeys),
                   !.func = WrappedFunc(injectionKeys, pValues)]
           ELSE childFunction
  ELSE IF models.present /\ ~opts.disableSmartModelRouting
                         /\ opts.canConfigureSmartModelRouting
       THEN [childFunction EXCEPT
               !.parameters = addModelParameter(@, models.list)]
       ELSE childFunction

\* what calling func with childArgs hands to the child's original func
ArgsDelivered(func, childArgs) ==
  IF func.wrapped THEN Spread(childArgs, pick(func.values, func.keys)) ELSE childArgs

ChildShapes ==
  {NoParams,
   [present |-> TRUE, hasProps |-> FALSE, props |-> <<>>,
    hasRequired |-> FALSE, required |-> <<>>]}
  \cup {Shape(ks, FALSE, <<>>) : ks \in {{}, {"region"}, {"region", "topic"}}}
  \cup {Shape({"region"}, TRUE, <<"region">>),
        Shape({"region", "topic"}, TRUE, <<"topic", "region">>),
        Shape({"region", "topic"}, TRUE, <<"topic">>),
        Shape({"region", "model"}, TRUE, <<"region", "model">>),
        Shape({"topic"}, TRUE, <<>>)}

ParentKeyLists ==
  {<<>>, <<"region">>, <<"topic", "region">>, <<"model", "region">>}

ArgValues == {"x", "y", "undefined"}

\* input values: some of the fields, each with a value
ValueSets ==
  UNION {[ks -> ArgValues] : ks \in {{}, {"region"}, {"topic"}}}
  \cup {[k \in {"region", "topic"} |-> "x"]}

ModelLists ==
  {[present |-> FALSE, list |-> <<>>],
   [present |-> TRUE, list |-> <<>>],
   [present |-> TRUE, list |-> <<[key |-> "fast", description |-> "quick"],
                                  [key |-> "smart", description |-> "deep"]>>]}

OptionSets ==
  [debug : {FALSE},
   disableSmartModelRouting : BOOLEAN,
   excludeFieldsFromPassthrough : {<<>>, <<"region">>},
   canConfigureSmartModelRouting : BOOLEAN]

NoArgs == <<>>

AdIdle ==
  /\ child = [name |-> "child", description |-> "the child agent",
              parameters |-> NoParams, func |-> OriginalFunc]
  /\ parentValues = NoArgs
  /\ parentInputKeys = <<>>
  /\ modelList = [present |-> FALSE, list |-> <<>>]
  /\ options = [debug |-> FALSE, disableSmartModelRouting |-> FALSE,
                excludeFieldsFromPassthrough |-> <<>>,
                canConfigureSmartModelRouting |-> FALSE]
  /\ adapted = child
  /\ callerArgs = NoArgs
  /\ delivered = NoArgs
  /\ apc = "off"

AdInit ==
  /\ child \in {[name |-> "child", description |-> "the child agent",
                 parameters |-> sh, func |-> OriginalFunc] : sh \in ChildShapes}
  /\ parentValues \in ValueSets
  /\ parentInputKeys \in ParentKeyLists
  /\ modelList \in ModelLists
  /\ options \in OptionSets
  /\ adapted = child
  /\ callerArgs = NoArgs
  /\ delivered = NoArgs
  /\ apc = "input"

\* init: the parent adapts the child's callable
Adapt ==
  /\ apc = "input"
  /\ adapted' = processChildAgentFunction(child, parentValues, parentInputKeys,
                                          modelList, options)
  /\ apc' = "adapted"
  /\ UNCHANGED <<child, parentValues, parentInputKeys, modelList, options,
                 callerArgs, delivered, genVars, agVars, heapVars, fwVars>>

\* the adapted callable is invoked with caller-supplied arguments
Invoke(childArgs) ==
  /\ apc \in {"adapted", "invoked"}
  /\ callerArgs' = childArgs
  /\ delivered' = ArgsDelivered(adapted.func, childArgs)
  /\ apc' = "invoked"
  /\ UNCHANGED <<child, parentValues, parentInputKeys, modelList, options,
                 adapted, genVars, agVars, heapVars, fwVars>>

(***************************************************************************)
(* The agent (AxAgent): construction, getFeatures, getFunction,            *)
(* setDescription and the invocation of the exposed callable.              *)
(***************************************************************************)
MinNameLength == 5

MinDescriptionLength == 20

MaxInvocations == 2

Rep(c, n) == [i \in 1..n |-> c]

Lowers ==
  <<"a", "b", "c", "d", "e", "f", "g", "h", "i", "j", "k", "l", "m",
    "n", "o", "p", "q", "r", "s", "t", "u", "v", "w", "x", "y", "z">>

Uppers ==
  <<"A", "B", "C", "D", "E", "F", "G", "H", "I", "J", "K", "L", "M",
    "N", "O", "P", "Q", "R", "S", "T", "U", "V", "W", "X", "Y", "Z">>

\* [a-zA-Z0-9]
IsAlnum(c) ==
  c \in SeqSet(Lowers) \cup SeqSet(Uppers)
        \cup {"0", "1", "2", "3", "4", "5", "6", "7", "8", "9"}

toLowerCase(c) ==
  IF c \in SeqSet(Uppers)
  THEN Lowers[CHOOSE i \in 1..Len(Uppers) : Uppers[i] = c]
  ELSE c

toUpperCase(c) ==
  IF c \in SeqSet(Lowers)
  THEN Uppers[CHOOSE i \in 1..Len(Lowers) : Lowers[i] = c]
  ELSE c

\* toCamelCase: the words between non-alphanumeric characters, lowercased,
\* each word after the first with a capital first letter, joined
toCamelCase(inputString) ==
  LET camel[i \in 0..Len(inputString)] ==
        IF i = 0 THEN <<>>
        ELSE IF ~IsAlnum(inputString[i]) THEN camel[i - 1]
        ELSE IF i > 1 /\ ~IsAlnum(inputString[i - 1])
             THEN Append(camel[i - 1], toUpperCase(toLowerCase(inputString[i])))
             ELSE Append(camel[i - 1], toLowerCase(inputString[i]))
  IN  camel[Len(inputString)]

\* !s for a string that may be undefined
Falsy(s) == ~s.def \/ s.text = <<>>

NameTooShortInclusive(name) == Len(name.text) <= MinNameLength

\* name.length < 5
NameTooShort(name) == Len(name.text) < MinNameLength

NameRejected(name) == Falsy(name) \/ NameTooShort(name)

DescriptionRejected(description) ==
  Falsy(description) \/ Len(description.text) < MinDescriptionLength

NameMsg == "Agent name must be at least 10 characters (more descriptive)"

DescriptionMsg ==
  "Agent description must be at least 20 characters (explain in detail what the agent does)"

ServiceRequiredMsg == "AI service is required to run the agent"

\* the parameter shape of a signature: its input fields, all required
SignatureSchema(inputFields) == Shape(SeqSet(inputFields), TRUE, inputFields)

NoModelList == [present |-> FALSE, list |-> <<>>]

NoService == [bound |-> FALSE, id |-> "undefined", models |-> NoModelList]

\* ai?.getModelList()
getModelList(ai) == IF ai.bound THEN ai.models ELSE NoModelList

NoCallable ==
  [exists |-> FALSE, name |-> <<>>, description |-> Undefined,
   parameters |-> NoParams, func |-> "undefined"]

NoAgent ==
  [exists |-> FALSE, ai |-> NoService, disableSmartModelRouting |-> "undefined",
   excludeFieldsFromPassthrough |-> <<>>,
   signature |-> [inputs |-> <<>>, description |-> Undefined],
   name |-> Undefined, description |-> Undefined, func |-> NoCallable]

\* this.func without the model field, whatever the service offers
ConstructedFuncUnrouted(args) ==
  [exists |-> TRUE,
   name |-> toCamelCase(args.name.text),
   description |-> args.description,
   parameters |-> SignatureSchema(args.signature),
   func |-> "forward"]

\* this.func as the constructor leaves it, the model field added or not
ConstructedFunc(args) ==
  LET func == [exists |-> TRUE,
               name |-> toCamelCase(args.name.text),
               description |-> args.description,
               parameters |-> SignatureSchema(args.signature),
               func |-> "forward"]
      mm == getModelList(args.ai)
  IN  IF mm.present /\ args.options.disableSmartModelRouting # "true"
      THEN [func EXCEPT !.parameters = addModelParameter(@, mm.list)]
      ELSE func

\* the agent the constructor returns when it does not throw
NewAgent(args) ==
  [exists |-> TRUE,
   ai |-> args.ai,
   disableSmartModelRouting |-> args.options.disableSmartModelRouting,
   excludeFieldsFromPassthrough |-> args.options.excludeFieldsFromPassthrough,
   signature |-> [inputs |-> args.signature, description |-> args.description],
   name |-> args.name,
   description |-> args.description,
   func |-> ConstructedFunc(args)]

\* getFeatures
getFeatures(a) ==
  [asked |-> TRUE,
   canConfigureSmartModelRouting |-> ~a.ai.bound,
   excludeFieldsFromPassthrough |-> a.excludeFieldsFromPassthrough]

NoFeatures ==
  [asked |-> FALSE, canConfigureSmartModelRouting |-> FALSE,
   excludeFieldsFromPassthrough |-> <<>>]

\* getFunction: { ...this.func, func: wrappedFunc }
getFunction(a) == [a.func EXCEPT !.func = "wrappedFunc"]

setDescriptionStoredOnly(a, description) ==
  [a EXCEPT !.description = description,
            !.signature.description = description]

\* the three assignments of setDescription
setDescription(a, description) ==
  [a EXCEPT !.description = description,
            !.signature.description = description,
            !.func.description = description]

\* const { model, ...values } = valuesAndModel
ModelOf(valuesAndModel) ==
  IF "model" \in DOMAIN valuesAndModel THEN valuesAndModel["model"] ELSE "undefined"

\* the values with the model left in
RestKeepingModel(valuesAndModel) == valuesAndModel

\* const { model, ...values } = valuesAndModel: the rest
RestOf(valuesAndModel) ==
  [k \in (DOMAIN valuesAndModel) \ {"model"} |-> valuesAndModel[k]]

\* this.ai ?? options?.ai
EffectiveService(own, opts) ==
  IF own.bound THEN own.id
  ELSE IF opts.def THEN opts.ai ELSE "undefined"

NoOptions == [def |-> FALSE, ai |-> "undefined", model |-> "undefined"]

NoInput == [values |-> <<>>, options |-> NoOptions]

NoForward ==
  [made |-> FALSE, parentAi |-> "undefined", ai |-> "undefined",
   values |-> <<>>, model |-> "undefined"]

\* forward as wrappedFunc enters it: the service init resolves (this.ai ??
\* parentAi), the values and the model of the options handed to the program
ForwardCall(own, parentAi, values, forwardOptions) ==
  [made |-> TRUE, parentAi |-> parentAi,
   ai |-> IF own.bound THEN own.id ELSE parentAi,
   values |-> values, model |-> forwardOptions.model]

\* the stored description and the description of this.func
Descriptions(a) == <<a.description, a.func.description>>

\* an operation on the agent: what it was given (the description for
\* setDescription, the values and options for wrappedFunc), how it ended,
\* and the descriptions and number of forward calls it found
Op(op, failed, msg, input, fwd) ==
  [op |-> op, failed |-> failed, msg |-> msg, input |-> input, forward |-> fwd,
   before |-> [descriptions |-> Descriptions(agent), forwards |-> forwardCount]]

NoOp ==
  [op |-> "none", failed |-> FALSE, msg |-> "", input |-> NoInput,
   forward |-> NoForward,
   before |-> [descriptions |-> Descriptions(NoAgent), forwards |-> 0]]

AgentNames ==
  {Undefined, Defined(<<>>),
   Defined(<<"b", "o", "t", "s">>),
   Defined(<<"m", "y", "-", "A", "g">>),
   Defined(<<"t", "o", "p", " ", "B", "1">>)}

AgentDescriptions ==
  {Undefined, Defined(<<>>),
   Defined(Rep("d", MinDescriptionLength - 1)),
   Defined(Rep("d", MinDescriptionLength)),
   Defined(Rep("g", MinDescriptionLength + 1))}

NewDescriptions ==
  {Undefined, Defined(<<>>),
   Defined(Rep("e", MinDescriptionLength - 1)),
   Defined(Rep("e", MinDescriptionLength)),
   Defined(Rep("f", MinDescriptionLength + 1))}

OwnServices ==
  {NoService} \cup {[bound |-> TRUE, id |-> "own", models |-> ml] : ml \in ModelLists}

CtorArgSets ==
  [ai : OwnServices,
   name : AgentNames,
   description : AgentDescriptions,
   signature : {<<"region">>, <<"model", "region">>},
   options : [disableSmartModelRouting : {"undefined", "false", "true"},
              excludeFieldsFromPassthrough : {<<"region">>}]]

InvokeValues ==
  {[k \in ks |-> IF k = "model" THEN "fast" ELSE "x"] :
     ks \in SUBSET {"region", "model"}}

InvokeOptions ==
  {NoOptions,
   [def |-> TRUE, ai |-> "undefined", model |-> "undefined"],
   [def |-> TRUE, ai |-> "supplied", model |-> "undefined"],
   [def |-> TRUE, ai |-> "supplied", model |-> "smart"]}

AgIdle ==
  /\ ctorArgs = [ai |-> NoService, name |-> Undefined, description |-> Undefined,
                 signature |-> <<>>,
                 options |-> [disableSmartModelRouting |-> "undefined",
                              excludeFieldsFromPassthrough |-> <<>>]]
  /\ agent = NoAgent
  /\ features = NoFeatures
  /\ exposed = NoCallable
  /\ lastOp = NoOp
  /\ forwardCount = 0
  /\ gpc = "off"

AgInit ==
  /\ ctorArgs \in CtorArgSets
  /\ agent = NoAgent
  /\ features = NoFeatures
  /\ exposed = NoCallable
  /\ lastOp = NoOp
  /\ forwardCount = 0
  /\ gpc = "none"

\* new AxAgent(ctorArgs): throws on a bad name or description, else returns
Construct ==
  /\ gpc = "none"
  /\ IF NameRejected(ctorArgs.name)
     THEN /\ agent' = NoAgent
          /\ gpc' = "failed"
          /\ lastOp' = Op("construct", TRUE, NameMsg, NoInput, NoForward)
     ELSE IF DescriptionRejected(ctorArgs.description)
     THEN /\ agent' = NoAgent
          /\ gpc' = "failed"
          /\ lastOp' = Op("construct", TRUE, DescriptionMsg, NoInput, NoForward)
     ELSE /\ agent' = NewAgent(ctorArgs)
          /\ gpc' = "built"
          /\ lastOp' = Op("construct", FALSE, "", NoInput, NoForward)
  /\ UNCHANGED <<ctorArgs, features, exposed, forwardCount, genVars, adVars, heapVars, fwVars>>

GetFeatures ==
  /\ gpc = "built"
  /\ features' = getFeatures(agent)
  /\ lastOp' = Op("getFeatures", FALSE, "", NoInput, NoForward)
  /\ UNCHANGED <<ctorArgs, agent, exposed, forwardCount, gpc, genVars, adVars, heapVars, fwVars>>

GetFunction ==
  /\ gpc = "built"
  /\ exposed' = getFunction(agent)
  /\ lastOp' = Op("getFunction", FALSE, "", NoInput, NoForward)
  /\ UNCHANGED <<ctorArgs, agent, features, forwardCount, gpc, genVars, adVars, heapVars, fwVars>>

SetDescription(description) ==
  /\ gpc = "built"
  /\ IF DescriptionRejected(description)
     THEN /\ lastOp' = Op("setDescription", TRUE, DescriptionMsg, description,
                          NoForward)
          /\ UNCHANGED agent
     ELSE /\ lastOp' = Op("setDescription", FALSE, "", description, NoForward)
          /\ agent' = setDescription(agent, description)
  /\ UNCHANGED <<ctorArgs, features, exposed, forwardCount, gpc, genVars, adVars, heapVars, fwVars>>

\* the func of the exposed callable (wrappedFunc) is called
InvokeExposed(valuesAndModel, opts) ==
  /\ gpc = "built"
  /\ exposed.exists
  /\ forwardCount < MaxInvocations
  /\ LET model == ModelOf(valuesAndModel)
         values == RestOf(valuesAndModel)
         ai == EffectiveService(agent.ai, opts)
         input == [values |-> valuesAndModel, options |-> opts]
     IN  IF ai = "undefined"
         THEN /\ lastOp' = Op("invoke", TRUE, ServiceRequiredMsg, input, NoForward)
              /\ UNCHANGED forwardCount
         ELSE /\ lastOp' = Op("invoke", FALSE, "", input,
                              ForwardCall(agent.ai, ai, values,
                                          [opts EXCEPT !.def = TRUE, !.model = model]))
              /\ forwardCount' = forwardCount + 1
  /\ UNCHANGED <<ctorArgs, agent, features, exposed, gpc, genVars, adVars, heapVars, fwVars>>

(***************************************************************************)
(* Objects by reference: what the adapter and the schema helpers copy,     *)
(* allocate and write when several users hold the same objects.            *)
(***************************************************************************)
MaxAdaptations == 2

MaxProjections == 3

\* a new object holding v
Alloc(objs, v) == [objs |-> Append(objs, v), ref |-> Len(objs) + 1]

\* the callable itself, not a copy
SameCallable(objs, ref) == [objs |-> objs, ref |-> ref]

\* { ...childFunction }: a new callable object with the same field values
ShallowCopy(objs, ref) == Alloc(objs, objs[ref])

\* the schema itself, not a clone
SameSchema(objs, ref) == [objs |-> objs, ref |-> ref]

\* structuredClone(schema): a new schema object with the same content
structuredClone(objs, ref) == Alloc(objs, objs[ref])

\* the shape a reference stands for; reference 0 is undefined
ShapeIn(objs, ref) == IF ref = 0 THEN NoParams ELSE objs[ref]

\* the callable object at ref, its parameter shape read through its reference
CallableValue(cs, ss, ref) ==
  [name |-> cs[ref].name, description |-> cs[ref].description,
   parameters |-> ShapeIn(ss, cs[ref].parameters), func |-> cs[ref].func]

\* a helper's result: the clone of the shape at ref (a fresh object when there
\* is none) after the helper's writes have made its content shape
Projected(ss, ref, shape) ==
  LET target == IF ref # 0 THEN structuredClone(ss, ref) ELSE Alloc(ss, shape)
  IN  [objs |-> [target.objs EXCEPT ![target.ref] = shape], ref |-> target.ref]

Parents == {"p1", "p2"}

SharedChildShapes ==
  {NoParams,
   Shape({"topic"}, TRUE, <<>>),
   Shape({"region"}, TRUE, <<"region">>),
   Shape({"region", "topic"}, TRUE, <<"topic", "region">>)}

SharedConfigs ==
  [values : {[k \in {"region"} |-> "y"], [k \in {"region", "topic"} |-> "x"]},
   keys : {<<"region">>, <<"topic", "region">>},
   models : {NoModelList,
             [present |-> TRUE, list |-> <<[key |-> "fast", description |-> "quick"]>>]},
   options : [debug : {FALSE}, disableSmartModelRouting : {FALSE},
              excludeFieldsFromPassthrough : {<<>>, <<"region">>},
              canConfigureSmartModelRouting : {TRUE}]]

NotHanded == [by |-> "none", args |-> NoArgs]

ChildCallable(sh, ref) ==
  [name |-> "child", description |-> "the child agent", parameters |-> sh,
   func |-> OriginalFunc]

HeapIdle ==
  /\ schemas = <<>>
  /\ callables = <<>>
  /\ original = ChildCallable(NoParams, 0)
  /\ parents = <<>>
  /\ adaptedBy = <<>>
  /\ reachedChild = NotHanded
  /\ cur = 0
  /\ projLog = <<>>
  /\ hpc = "off"

\* one child callable, held by every parent
SharedInit ==
  /\ \E sh \in SharedChildShapes :
       /\ schemas = IF sh.present THEN <<sh>> ELSE <<>>
       /\ callables = <<ChildCallable(IF sh.present THEN 1 ELSE 0, 0)>>
       /\ original = ChildCallable(sh, 0)
  /\ parents \in [Parents -> SharedConfigs]
  /\ adaptedBy = [p \in Parents |-> 0]
  /\ reachedChild = NotHanded
  /\ cur = 0
  /\ projLog = <<>>
  /\ hpc = "shared"

\* init of parent p: processChildAgentFunction on the shared child callable
AdaptBy(p) ==
  /\ hpc = "shared"
  /\ Len(callables) <= MaxAdaptations
  /\ LET cfg == parents[p]
         copy == ShallowCopy(callables, 1)
         params == copy.objs[copy.ref].parameters
         given == CallableValue(copy.objs, schemas, copy.ref)
         result == processChildAgentFunction(given, cfg.values, cfg.keys,
                                             cfg.models, cfg.options)
         written == IF result.parameters = given.parameters
                    THEN [objs |-> schemas, ref |-> params]
                    ELSE Projected(schemas, params, result.parameters)
     IN  /\ schemas' = written.objs
         /\ callables' = [copy.objs EXCEPT
                            ![copy.ref] = [@ EXCEPT !.parameters = written.ref,
                                                    !.func = result.func]]
         /\ adaptedBy' = [adaptedBy EXCEPT ![p] = copy.ref]
  /\ UNCHANGED <<original, parents, reachedChild, cur, projLog, hpc,
                 genVars, adVars, agVars, fwVars>>

\* the callable parent p got is invoked with caller-supplied arguments
InvokeAdapted(p, childArgs) ==
  /\ hpc = "shared"
  /\ adaptedBy[p] # 0
  /\ reachedChild' = [by |-> p,
                args |-> ArgsDelivered(callables[adaptedBy[p]].func, childArgs)]
  /\ UNCHANGED <<schemas, callables, original, parents, adaptedBy, cur, projLog,
                 hpc, genVars, adVars, agVars, fwVars>>

ProjectorShapes ==
  (ChildShapes \ {NoParams})
  \cup {Shape({"topic"}, TRUE, <<"topic", "region">>),
        Shape({"region"}, TRUE, <<"model">>),
        [present |-> TRUE, hasProps |-> FALSE, props |-> <<>>,
         hasRequired |-> TRUE, required |-> <<"region">>]}

ProjectorKeyLists ==
  {<<>>, <<"region">>, <<"model">>, <<"topic", "region">>, <<"ghost">>}

ProjectorModelLists ==
  {<<>>,
   <<[key |-> "fast", description |-> "quick"], [key |-> "smart", description |-> "deep"]>>,
   <<[key |-> "large", description |-> "slow"]>>}

\* a shape, or no shape, before any projection
ProjectorInit ==
  /\ \E sh \in ProjectorShapes \cup {NoParams} :
       /\ schemas = IF sh.present THEN <<sh>> ELSE <<>>
       /\ cur = IF sh.present THEN 1 ELSE 0
  /\ callables = <<>>
  /\ original = ChildCallable(NoParams, 0)
  /\ parents = <<>>
  /\ adaptedBy = <<>>
  /\ reachedChild = NotHanded
  /\ projLog = <<>>
  /\ hpc = "projector"

Projection(op, keys, models, result) ==
  [op |-> op, input |-> cur, was |-> ShapeIn(schemas, cur), keys |-> keys,
   models |-> models, output |-> result.ref]

\* removePropertiesFromSchema(the current shape, keys)
RemoveFields(keys) ==
  /\ hpc = "projector"
  /\ cur # 0
  /\ Len(projLog) < MaxProjections
  /\ LET result == Projected(schemas, cur,
                             removePropertiesFromSchema(schemas[cur], keys))
     IN  /\ schemas' = result.objs
         /\ cur' = result.ref
         /\ projLog' = Append(projLog, Projection("removeFields", keys, <<>>, result))
  /\ UNCHANGED <<callables, original, parents, adaptedBy, reachedChild, hpc,
                 genVars, adVars, agVars, fwVars>>

\* addModelParameter(the current shape or undefined, models)
AddModelField(models) ==
  /\ hpc = "projector"
  /\ Len(projLog) < MaxProjections
  /\ LET result == Projected(schemas, cur,
                             addModelParameter(ShapeIn(schemas, cur), models))
     IN  /\ schemas' = result.objs
         /\ cur' = result.ref
         /\ projLog' = Append(projLog, Projection("addModelField", <<>>, models, result))
  /\ UNCHANGED <<callables, original, parents, adaptedBy, reachedChild, hpc,
                 genVars, adVars, agVars, fwVars>>

(***************************************************************************)
(* The agent's forward and streamingForward: init assembles the callables  *)
(* handed to the program from the attached or supplied callables and the   *)
(* adapted callables of the child agents.                                  *)
(***************************************************************************)
MaxForwards == 2

\* an AxFunction attached to an agent or supplied by a caller
PlainCallable(name) ==
  [exists |-> TRUE, name |-> <<name>>,
   description |-> Defined(Rep("c", MinDescriptionLength)),
   parameters |-> Shape({"topic"}, TRUE, <<"topic">>), func |-> name]

\* an optional array: functions?, agents?
Absent == [def |-> FALSE, list |-> <<>>]

Given(list) == [def |-> TRUE, list |-> list]

\* the child agents: alpha shares the input field region with its parent and
\* has no service of its own, beta owns a service
ChildAgent(n) ==
  NewAgent([ai |-> IF n = "beta"
                   THEN [bound |-> TRUE, id |-> "own", models |-> NoModelList]
                   ELSE NoService,
            name |-> Defined(IF n = "beta" THEN <<"b", "e", "t", "a", "-", "x">>
                                           ELSE <<"a", "l", "p", "h", "a">>),
            description |-> Defined(Rep("d", MinDescriptionLength)),
            signature |-> IF n = "beta" THEN <<"topic">> ELSE <<"region", "topic">>,
            options |-> [disableSmartModelRouting |-> "undefined",
                         excludeFieldsFromPassthrough |-> <<>>]])

NoOwner == [agent |-> NoAgent, functions |-> Absent, agents |-> Absent]

\* the fields the constructor stores: this.agents, this.functions and the rest
Owner(args, attached, children) ==
  [agent |-> NewAgent(args), functions |-> attached, agents |-> children]

NoForwardOptions == [def |-> FALSE, functions |-> Absent, model |-> "undefined"]

\* options?.functions ?? this.functions ?? []
BaseFunctions(o, fwdOptions) ==
  IF fwdOptions.def /\ fwdOptions.functions.def THEN fwdOptions.functions.list
  ELSE IF o.functions.def THEN o.functions.list
  ELSE <<>>

\* this.agents?.map(...): one adapted callable per child agent, in order
AgentFuncs(o, ai, values) ==
  [k \in 1..Len(o.agents.list) |->
     LET f == getFeatures(o.agents.list[k])
     IN  processChildAgentFunction(
           getFunction(o.agents.list[k]), values, o.agent.signature.inputs,
           getModelList(ai),
           [debug |-> FALSE,
            disableSmartModelRouting |-> o.agent.disableSmartModelRouting = "true",
            excludeFieldsFromPassthrough |-> f.excludeFieldsFromPassthrough,
            canConfigureSmartModelRouting |-> f.canConfigureSmartModelRouting])]

\* init: the effective service and the combined callables
init(o, parentAi, values, fwdOptions) ==
  LET ai == IF o.agent.ai.bound THEN o.agent.ai ELSE parentAi
  IN  [ai |-> ai,
       functions |-> BaseFunctions(o, fwdOptions) \o AgentFuncs(o, ai, values)]

NoHandover ==
  [kind |-> "none", ai |-> NoService, values |-> <<>>,
   given |-> NoForwardOptions, options |-> NoForwardOptions]

\* this.program.forward(ai, values, { ...options, functions }): what the
\* program is handed, and the options the caller gave
ProgramCall(kind, o, parentAi, values, fwdOptions) ==
  LET made == init(o, parentAi, values, fwdOptions)
  IN  [kind |-> kind, ai |-> made.ai, values |-> values, given |-> fwdOptions,
       options |-> [fwdOptions EXCEPT !.def = TRUE,
                                      !.functions = Given(made.functions)]]

OwnerArgs ==
  [ai : {NoService,
         [bound |-> TRUE, id |-> "own",
          models |-> [present |-> TRUE,
                      list |-> <<[key |-> "fast", description |-> "quick"]>>]]},
   name : {Defined(<<"o", "w", "n", "e", "r">>)},
   description : {Defined(Rep("d", MinDescriptionLength))},
   signature : {<<"region">>},
   options : [disableSmartModelRouting : {"undefined", "true"},
              excludeFieldsFromPassthrough : {<<>>}]]

AttachedSets ==
  {Absent, Given(<<>>), Given(<<PlainCallable("fnA")>>),
   Given(<<PlainCallable("fnA"), PlainCallable("fnB")>>)}

ChildSets ==
  {Absent, Given(<<>>), Given(<<ChildAgent("alpha")>>),
   Given(<<ChildAgent("alpha"), ChildAgent("beta")>>),
   Given(<<ChildAgent("beta"), ChildAgent("alpha")>>)}

ForwardOptionSets ==
  {NoForwardOptions}
  \cup {[def |-> TRUE, functions |-> fs, model |-> "undefined"] :
          fs \in {Absent, Given(<<>>), Given(<<PlainCallable("fnX")>>),
                  Given(<<PlainCallable("fnA"), PlainCallable("fnX")>>)}}

ForwardValues == {<<>>, [region |-> "x"], [region |-> "x", topic |-> "y"]}

CallerServices ==
  {[bound |-> TRUE, id |-> "supplied", models |-> ml] : ml \in ModelLists}

FwIdle ==
  /\ owner = NoOwner
  /\ handover = NoHandover
  /\ forwards = 0

FwInit ==
  /\ owner \in {Owner(a, fs, cs) : a \in OwnerArgs, fs \in AttachedSets,
                                   cs \in ChildSets}
  /\ handover = NoHandover
  /\ forwards = 0

\* forward(parentAi, values, options)
Forward(parentAi, values, fwdOptions) ==
  /\ owner.agent.exists
  /\ forwards < MaxForwards
  /\ handover' = ProgramCall("forward", owner, parentAi, values, fwdOptions)
  /\ forwards' = forwards + 1
  /\ UNCHANGED <<owner, genVars, adVars, agVars, heapVars>>

\* streamingForward(parentAi, values, options)
StreamingForward(parentAi, values, fwdOptions) ==
  /\ owner.agent.exists
  /\ forwards < MaxForwards
  /\ handover' = ProgramCall("streamingForward", owner, parentAi, values,
                             fwdOptions)
  /\ forwards' = forwards + 1
  /\ UNCHANGED <<owner, genVars, adVars, agVars, heapVars>>

GenIdle ==
  /\ functions = <<>>
  /\ mode = "plain"
  /\ maxSteps = DefaultMaxSteps
  /\ mem = EmptyMemory
  /\ plan = <<>>
  /\ planPos = 1
  /\ pc = "off"
  /\ sessionId = Unkeyed
  /\ query = ""
  /\ stepI = 0
  /\ previousValue = Undefined
  /\ value = <<>>
  /\ retryI = 0
  /\ traces = <<>>
  /\ outcome = NoOutcome
  /\ log = <<>>
  /\ capChanged = FALSE
  /\ debug = FALSE
  /\ sink = <<>>
  /\ configured = <<>>
  /\ runs = 0

(***************************************************************************)
(* Specifications.                                                         *)
(***************************************************************************)
Init == GenInit /\ AdIdle /\ AgIdle /\ HeapIdle /\ FwIdle

Next ==
  \/ \E s \in SessionIds, q \in Queries : Generate(s, q)
  \/ StepBegin
  \/ StepBudgetExceeded
  \/ \E r \in StepResponses : StepResponse(r)
  \/ \E out \in FinalOutputs \cup {NoResult, Resp(<<"r">>)} : StepExec(out)
  \/ \E r \in TextResponses : DefaultResponse(r)
  \/ DecodeReturn
  \/ DecodeRetry
  \/ DecodeFix
  \/ \E r \in TextResponses : FixResponse(r)
  \/ RetryExhausted
  \/ \E n \in 0..MaxStepsArg : SetMaxSteps(n)

Spec == Init /\ [][Next]_vars

RerunsNext == Next \/ Rerun

SpecReruns == Init /\ [][RerunsNext]_vars

AdapterInit == GenIdle /\ AdInit /\ AgIdle /\ HeapIdle /\ FwIdle

AdapterNext ==
  \/ Adapt
  \/ \E a \in ValueSets : Invoke(a)

SpecAdapter == AdapterInit /\ [][AdapterNext]_vars

AgentInit == GenIdle /\ AdIdle /\ AgInit /\ HeapIdle /\ FwIdle

AgentNext ==
  \/ Construct
  \/ GetFeatures
  \/ GetFunction
  \/ \E d \in NewDescriptions : SetDescription(d)
  \/ \E v \in InvokeValues, o \in InvokeOptions : InvokeExposed(v, o)

SpecAgent == AgentInit /\ [][AgentNext]_vars

SharedChildInit == GenIdle /\ AdIdle /\ AgIdle /\ SharedInit /\ FwIdle

SharedNext ==
  \/ \E p \in Parents : AdaptBy(p)
  \/ \E p \in Parents, a \in ValueSets : InvokeAdapted(p, a)

SpecShared == SharedChildInit /\ [][SharedNext]_vars

ProjectionInit == GenIdle /\ AdIdle /\ AgIdle /\ ProjectorInit /\ FwIdle

ProjectorNext ==
  \/ \E keys \in ProjectorKeyLists : RemoveFields(keys)
  \/ \E models \in ProjectorModelLists : AddModelField(models)

SpecProjector == ProjectionInit /\ [][ProjectorNext]_vars

ForwardInit == GenIdle /\ AdIdle /\ AgIdle /\ HeapIdle /\ FwInit

ForwardNext ==
  \/ \E ai \in CallerServices, vs \in ForwardValues, o \in ForwardOptionSets :
       Forward(ai, vs, o)
  \/ \E ai \in CallerServices, vs \in ForwardValues, o \in ForwardOptionSets :
       StreamingForward(ai, vs, o)

SpecForward == ForwardInit /\ [][ForwardNext]_vars

(***************************************************************************)
(* Vocabulary of the properties, read off the history variable log.        *)
(***************************************************************************)
LogIdx == 1..Len(log)

\* the run went through _generateDefault
NoCallablesRun == pc \notin {"idle", "off"} /\ Len(functions) = 0

\* the run went through _generateWithFunctions
CallablesRun == pc \notin {"idle", "off"} /\ Len(functions) > 0

Calls(kind) == {k \in LogIdx : log[k].e = "call" /\ log[k].kind = kind}

AllCalls == {k \in LogIdx : log[k].e = "call"}

Responses(kind) == {k \in LogIdx : log[k].e = "response" /\ log[k].kind = kind}

AllResponses == {k \in LogIdx : log[k].e = "response"}

Decodes == {k \in LogIdx : log[k].e = "decode"}

FailedDecodes == {k \in Decodes : ~log[k].ok}

Execs == {k \in LogIdx : log[k].e = "exec"}

FinalExecs == {k \in Execs : log[k].name = "finalResult"}

\* j and k are consecutive members of the index set S
Consecutive(S, j, k) == j \in S /\ k \in S /\ j < k /\ \A x \in S : ~(j < x /\ x < k)

\* a response whose text is absent, or empty once trimmed
Blank(r) == ~r.has \/ \A x \in 1..Len(r.text) : r.text[x] = Sp

\* the entries of the session that were there before the run
OldEntries(s) == SelectSeq(mem[s], LAMBDA en : en.kind = "old")

\* the last step was ended by the error msg, at event k
FailedAt(k, msg) == k = Len(log) /\ pc = "done" /\ outcome = Thrown(msg)

(***************************************************************************)
(* C1: in a run without callables, between two consecutive decode attempts *)
(* there is exactly one repair completion call, which carries the previous *)
(* output and the decode error, and the later attempt decodes that call's  *)
(* response.                                                               *)
(***************************************************************************)
C1_OneRepairBetweenDecodes ==
  NoCallablesRun =>
    \A j \in Decodes, k \in Decodes :
      Consecutive(Decodes, j, k) =>
        /\ Cardinality({x \in Calls("repair") : j < x /\ x < k}) = 1
        /\ \E x \in Calls("repair") :
             /\ j < x /\ x < k
             /\ log[x].prompt.prev = log[j].text
             /\ log[x].prompt.err = DecodeError(mode)
        /\ \E y \in Responses("repair") :
             /\ j < y /\ y < k
             /\ log[k].text = Trim(log[y].raw.text)

(***************************************************************************)
(* C2: in a run without callables, when the decoder fails on the first two *)
(* outputs of the service and succeeds on the third, the run returns the   *)
(* value decoded from the third and exactly 2 parsing errors were recorded.*)
(***************************************************************************)
FailsTwiceThenSucceeds ==
  /\ Len(plan) = 3
  /\ \A x \in {1, 2} : ~Blank(plan[x]) /\ ~DecodeSucceeds(mode, Trim(plan[x].text))
  /\ DecodeSucceeds(mode, Trim(plan[3].text))

DecoderAlwaysFails ==
  \A k \in AllResponses :
    ~Blank(log[k].raw) /\ ~DecodeSucceeds(mode, Trim(log[k].raw.text))

C3_ExhaustedAfterThreeAttempts ==
  (NoCallablesRun /\ DecoderAlwaysFails) =>
    /\ outcome.kind # "value"
    /\ Cardinality(Decodes) <= 3
    /\ pc = "done" => (outcome = Thrown(UnableMsg) /\ Cardinality(Decodes) = 3)

C3_Witness ==
  /\ NoCallablesRun
  /\ DecoderAlwaysFails
  /\ pc = "done"
  /\ outcome = Thrown(UnableMsg)
  /\ Cardinality(Decodes) = 3

(***************************************************************************)
(* C4: in a run with callables, a step fails with "Duplicate response      *)
(* received", before any function execution or memory append of that step, *)
(* exactly when its trimmed result is non-empty and equal to the trimmed   *)
(* result of the step just before it; equality with an earlier,            *)
(* non-adjacent step does not fail the run.                                *)
(***************************************************************************)
\* the responses of the steps, in order
StepResponseSeq ==
  SelectSeq(log, LAMBDA ev : ev.e = "response" /\ ev.kind = "step")

\* the last event of the run is the response of its last step
EndsWithStepResponse ==
  /\ log # <<>>
  /\ log[Len(log)].e = "response"
  /\ log[Len(log)].kind = "step"

C4_DuplicateOnlyWhenAdjacent ==
  CallablesRun =>
    LET rs == StepResponseSeq
    IN  \A x \in 1..Len(rs) :
          (/\ x > 1
           /\ ~Blank(rs[x].raw)
           /\ ~Blank(rs[x - 1].raw)
           /\ Trim(rs[x].raw.text) = Trim(rs[x - 1].raw.text))
          <=> (/\ x = Len(rs)
               /\ EndsWithStepResponse
               /\ pc = "done"
               /\ outcome = Thrown(DuplicateMsg))

C4_Witness ==
  /\ CallablesRun
  /\ pc = "done"
  /\ outcome = Thrown(DuplicateMsg)
  /\ LET rs == StepResponseSeq
     IN  /\ Len(rs) = 4
         /\ rs[1].text = rs[3].text
         /\ rs[2].text # rs[1].text
         /\ rs[4].text = rs[3].text

(***************************************************************************)
(* C5: a completion call (of a step, the single request, or a repair)      *)
(* whose result text is absent or empty once trimmed ends the run with     *)
(* "Empty response received"; nothing is executed or appended for it.      *)
(***************************************************************************)
C5_EmptyResponseFails ==
  \A k \in AllResponses :
    Blank(log[k].raw) =>
      /\ FailedAt(k, EmptyMsg)
      /\ \A s \in SessionIds : Len(mem[s]) = Len(OldEntries(s)) + Len(
           SelectSeq(log, LAMBDA ev : ev.e = "add" /\ ev.key = s))

C5_Witness ==
  /\ CallablesRun
  /\ pc = "done"
  /\ outcome = Thrown(EmptyMsg)
  /\ log[Len(log)].e = "response"
  /\ log[Len(log)].raw = Resp(<<Sp>>)
  /\ Cardinality(Execs) = 2
  /\ Len(mem[sessionId]) = Len(OldEntries(sessionId)) + 2

StepLoopReturned == pc \in {"decode", "fix_await"} \/ Decodes # {}

\* event x belongs to a step of the function loop
IsStepEvent(x) ==
  \/ log[x].e = "exec"
  \/ log[x].e \in {"call", "response"} /\ log[x].kind = "step"

C7_FinalResultEndsLoop ==
  CallablesRun =>
    LET finals == FinalExecs
        decodes == Decodes
    IN  /\ StepLoopReturned <=> (finals # {})
        /\ \A k \in finals :
             /\ \A x \in (k + 1)..Len(log) : ~IsStepEvent(x)
             /\ LET handed == IF log[k].out.has THEN log[k].out.text ELSE <<>>
                IN  IF decodes = {}
                    THEN pc = "decode" /\ value = handed
                    ELSE \E d \in decodes :
                           /\ \A e \in decodes : d <= e
                           /\ log[d].text = handed

C7_Witness ==
  /\ CallablesRun
  /\ pc = "done"
  /\ outcome = Returned(PlainValue(<<>>))
  /\ Cardinality(Execs) = 3
  /\ \E k \in FinalExecs : ~log[k].out.has

(***************************************************************************)
(* C8: in a run with callables each step is: prompt built from the query   *)
(* and the session's whole history, completion call, function execution,   *)
(* memory append; every step that executes a function appends exactly one  *)
(* entry (response, "Result: ", output) to the run's session, so that the  *)
(* prompt of a step holds the entries of all earlier steps in order.       *)
(***************************************************************************)
\* the entries of the add events, in order
AddedEntries ==
  LET adds == SelectSeq(log, LAMBDA ev : ev.e = "add")
  IN  [x \in 1..Len(adds) |-> adds[x].entry]

\* the completion calls of the steps, in order
StepCallSeq == SelectSeq(log, LAMBDA ev : ev.e = "call" /\ ev.kind = "step")

C8_StepOrderAndMemory ==
  CallablesRun =>
    LET old == OldEntries(sessionId)
        added == AddedEntries
        calls == StepCallSeq
    IN  \* within a step: call, response, execution, append
        /\ \A k \in LogIdx :
             /\ (log[k].e = "call" /\ log[k].kind = "step") =>
                   (k = 1 \/ log[k - 1].e = "add")
             /\ log[k].e = "exec" =>
                   /\ k >= 3 /\ k < Len(log)
                   /\ log[k - 2].e = "call" /\ log[k - 2].kind = "step"
                   /\ log[k - 1].e = "response" /\ log[k - 1].kind = "step"
                   /\ log[k + 1] =
                        AddEv(sessionId,
                              [kind |-> "step", query |-> "",
                               resp |-> Trim(log[k - 1].raw.text),
                               sep |-> "Result: ",
                               out |-> IF log[k].out.has THEN log[k].out.text
                                       ELSE <<>>])
             /\ log[k].e = "add" => log[k - 1].e = "exec"
        \* the prompt of step x: the query and the history with the entries
        \* of steps 1..x-1
        /\ \A x \in 1..Len(calls) :
             /\ calls[x].key = sessionId
             /\ calls[x].prompt.query = query
             /\ Len(added) >= x - 1
             /\ calls[x].prompt.hist = old \o SubSeq(added, 1, x - 1)
        /\ mem[sessionId] = old \o added
        /\ \A s \in SessionIds \ {sessionId} : mem[s] = OldEntries(s)

C8_Witness ==
  /\ CallablesRun
  /\ sessionId = "s1"
  /\ Cardinality(Execs) = 3
  /\ FinalExecs # {}
  /\ Len(OldEntries("s1")) = 1
  /\ Len(mem["s1"]) = 4
  /\ \E k \in Calls("step") : Len(log[k].prompt.hist) = 3

(***************************************************************************)
(* C9: a run without callables, output shape or key-value mode, whose      *)
(* completion response is a non-empty text, issues exactly one completion  *)
(* call, returns the trimmed response text, and leaves exactly one new     *)
(* entry in the memory of the run's session.                               *)
(***************************************************************************)
C9_PlainSingleShot ==
  (NoCallablesRun /\ mode = "plain" /\ pc = "done" /\ ~Blank(log[2].raw)) =>
    /\ Cardinality(AllCalls) = 1
    /\ outcome = Returned(PlainValue(Trim(log[2].raw.text)))
    /\ Len(mem[sessionId]) = Len(OldEntries(sessionId)) + 1
    /\ mem[sessionId][Len(mem[sessionId])].resp = Trim(log[2].raw.text)
    /\ \A s \in SessionIds \ {sessionId} : mem[s] = OldEntries(s)

C9_Witness ==
  /\ NoCallablesRun
  /\ mode = "plain"
  /\ pc = "done"
  /\ log[2].raw = Resp(<<"a", ":", "b", Sp>>)
  /\ outcome = Returned(PlainValue(<<"a", ":", "b">>))
  /\ mem[sessionId] = <<OldEntry(sessionId), DefaultEntry(query, <<"a", ":", "b">>)>>

(***************************************************************************)
(* C10: for a child callable adapted by processChildAgentFunction, for     *)
(* every injection key (declared by the parent's input and by the child's  *)
(* parameters, not "model", not excluded) and every caller-supplied        *)
(* argument set, the argument that reaches the child's original func for   *)
(* that key is the parent's input value for the key, never the caller's.   *)
(***************************************************************************)
\* obj[key] in the source language: undefined for a key obj does not have
ValueAt(obj, key) == IF key \in DOMAIN obj THEN obj[key] ELSE "undefined"

ClaimedInjectionKeys ==
  ((SeqSet(parentInputKeys) \cap PropKeys(child.parameters)) \ {"model"})
    \ SeqSet(options.excludeFieldsFromPassthrough)

C10_ParentValueDelivered ==
  apc = "invoked" =>
    \A key \in ClaimedInjectionKeys :
      ValueAt(delivered, key) = ValueAt(parentValues, key)

(***************************************************************************)
(* C11: for a child callable adapted by processChildAgentFunction, a field *)
(* declared by the parent's input and by the child's parameters that the   *)
(* child lists in its passthrough exclusions stays in the adapted          *)
(* parameter shape, its property and its place in required as they were,   *)
(* and the argument the caller supplies for it reaches the child's         *)
(* original func as supplied.                                              *)
(***************************************************************************)
ExcludedCommonKeys ==
  ((SeqSet(parentInputKeys) \cap PropKeys(child.parameters)) \ {"model"})
    \cap SeqSet(options.excludeFieldsFromPassthrough)

\* the positions of key in the required list of the shape sch
RequiredPlaces(sch, key) == {k \in 1..Len(sch.required) : sch.required[k] = key}

\* the required list of sch, cut down to the excluded common keys
RequiredAmongExcluded(sch) ==
  SelectSeq(sch.required, LAMBDA r : r \in ExcludedCommonKeys)

C11_ExcludedFieldUntouched ==
  \A key \in ExcludedCommonKeys :
    /\ apc \in {"adapted", "invoked"} =>
         /\ key \in PropKeys(adapted.parameters)
         /\ adapted.parameters.props[key] = child.parameters.props[key]
         /\ adapted.parameters.hasRequired = child.parameters.hasRequired
         /\ (RequiredPlaces(adapted.parameters, key) = {})
              = (RequiredPlaces(child.parameters, key) = {})
         /\ RequiredAmongExcluded(adapted.parameters)
              = RequiredAmongExcluded(child.parameters)
    /\ apc = "invoked" =>
         /\ (key \in DOMAIN delivered) = (key \in DOMAIN callerArgs)
         /\ ValueAt(delivered, key) = ValueAt(callerArgs, key)

\* region is excluded while topic is injected: the wrapper is in place, the
\* parent has its own region value, and the caller's region gets through
C11_Witness ==
  /\ apc = "invoked"
  /\ options.excludeFieldsFromPassthrough = <<"region">>
  /\ parentInputKeys = <<"topic", "region">>
  /\ child.parameters = Shape({"region", "topic"}, TRUE, <<"topic", "region">>)
  /\ adapted.func.wrapped
  /\ adapted.parameters = Shape({"region"}, TRUE, <<"region">>)
  /\ parentValues = [k \in {"region", "topic"} |-> "x"]
  /\ callerArgs = [k \in {"region"} |-> "y"]
  /\ delivered = [k \in {"region", "topic"} |-> IF k = "region" THEN "y" ELSE "x"]

(***************************************************************************)
(* C12: when processChildAgentFunction adapts a child callable that has no *)
(* injection key, a model list is present, smart routing is not disabled   *)
(* and the child reports canConfigureSmartModelRouting, the adapted        *)
(* parameter shape has a required "model" field whose enum lists the keys  *)
(* of the model list, one value per key; also when the child callable has  *)
(* a parameter shape of its own.                                           *)
(***************************************************************************)
RoutingOffered ==
  /\ ClaimedInjectionKeys = {}
  /\ modelList.present
  /\ ~options.disableSmartModelRouting
  /\ options.canConfigureSmartModelRouting

ModelKeys(models) == [k \in 1..Len(models) |-> models[k].key]

\* the shape sch has a required "model" enum field over the keys of models
HasModelField(sch, models) ==
  /\ sch.present
  /\ "model" \in PropKeys(sch)
  /\ sch.props["model"].enum = ModelKeys(models)
  /\ sch.hasRequired
  /\ "model" \in SeqSet(sch.required)

C12_ModelFieldWhenRoutable ==
  (apc \in {"adapted", "invoked"} /\ RoutingOffered) =>
    HasModelField(adapted.parameters, modelList.list)

(***************************************************************************)
(* C13: an agent that owns a bound backing service reports                 *)
(* canConfigureSmartModelRouting = false, and the callable it exposes      *)
(* through getFunction carries no "model" selection field in its parameter *)
(* shape, whatever the model list of the service and the routing option.   *)
(***************************************************************************)
\* the callable has a "model" field that the agent's signature does not declare
HasModelSelection(callable) ==
  "model" \in PropKeys(callable.parameters) \ SeqSet(agent.signature.inputs)

BoundAgent == gpc = "built" /\ agent.ai.bound

ChildNow == CallableValue(callables, schemas, 1)

C14_OriginalNeverChanged ==
  hpc = "shared" =>
    /\ ChildNow.name = original.name
    /\ ChildNow.description = original.description
    /\ ChildNow.parameters = original.parameters
    /\ ChildNow.func = original.func
    /\ callables[1].parameters = (IF original.parameters.present THEN 1 ELSE 0)

\* both parents adapted the child, each hiding another field, and the
\* callable of the second was invoked after both adaptations
C14_Witness ==
  /\ hpc = "shared"
  /\ original.parameters = Shape({"region", "topic"}, TRUE, <<"topic", "region">>)
  /\ adaptedBy["p1"] = 2
  /\ adaptedBy["p2"] = 3
  /\ CallableValue(callables, schemas, 2).parameters = Shape({"topic"}, TRUE, <<"topic">>)
  /\ CallableValue(callables, schemas, 3).parameters = Shape({"region"}, TRUE, <<"region">>)
  /\ callables[2].func.wrapped
  /\ callables[3].func.wrapped
  /\ reachedChild.by = "p2"
  /\ reachedChild.args = [k \in {"region", "topic"} |-> IF k = "region" THEN "y" ELSE "x"]

(***************************************************************************)
(* Vocabulary of the projections, read off projLog.                        *)
(***************************************************************************)
\* the shape projection e returned
Out(e) == schemas[e.output]

NoDuplicates(q) == \A i \in 1..Len(q), j \in 1..Len(q) : q[i] = q[j] => i = j

RequiredWithinProperties(sh) == SeqSet(sh.required) \subseteq PropKeys(sh)

\* the shape the projections started from
StartShape == projLog[1].was

Kept(q, keys) == {i \in 1..Len(q) : q[i] \notin SeqSet(keys)}

\* out is q without the entries among keys, the others in their order
IsRestOf(out, q, keys) ==
  /\ Len(out) = Cardinality(Kept(q, keys))
  /\ \A i \in Kept(q, keys) :
       out[Cardinality({j \in Kept(q, keys) : j <= i})] = q[i]

C16_RemoveFieldsExact ==
  \A i \in 1..Len(projLog) :
    projLog[i].op = "removeFields" =>
      LET e == projLog[i]
      IN  /\ e.output # e.input
          /\ schemas[e.input] = e.was
          /\ Out(e).present
          /\ Out(e).hasProps = e.was.hasProps
          /\ PropKeys(Out(e)) = PropKeys(e.was) \ SeqSet(e.keys)
          /\ \A k \in PropKeys(Out(e)) : Out(e).props[k] = e.was.props[k]
          /\ Out(e).hasRequired = e.was.hasRequired
          /\ IsRestOf(Out(e).required, e.was.required, e.keys)
          /\ (SeqSet(e.keys) \cap (PropKeys(e.was) \cup SeqSet(e.was.required)) = {})
               => Out(e) = e.was
          /\ e.keys = <<>> => Out(e) = e.was

\* one of two keys is in the shape, and a required field before and one
\* after the removed one are kept in order
C16_Witness ==
  /\ Len(projLog) = 2
  /\ projLog[1].op = "addModelField"
  /\ projLog[2].op = "removeFields"
  /\ projLog[2].was.required = <<"topic", "region", "model">>
  /\ projLog[2].keys = <<"region">>
  /\ Out(projLog[2]).required = <<"topic", "model">>
  /\ PropKeys(Out(projLog[2])) = {"topic", "model"}
  /\ projLog[2].output = 3
  /\ schemas[2] = projLog[2].was

(***************************************************************************)
(* C17: for every shape, or no shape, and every model list, addModelField  *)
(* applied twice with the list yields a shape structurally equal to        *)
(* applying it once; and when the input shape already has a "model"        *)
(* property the result equals the input: the property is not overwritten   *)
(* and the required list is not extended.                                  *)
(***************************************************************************)
C17_AddModelFieldIdempotent ==
  \A i \in 1..Len(projLog) :
    projLog[i].op = "addModelField" =>
      /\ "model" \in PropKeys(projLog[i].was) => Out(projLog[i]) = projLog[i].was
      /\ (/\ i > 1
          /\ projLog[i - 1].op = "addModelField"
          /\ projLog[i - 1].models = projLog[i].models)
           => Out(projLog[i]) = Out(projLog[i - 1])
      /\ (i > 1 /\ projLog[i - 1].op = "addModelField")
           => /\ Out(projLog[i]).props["model"] = ModelProperty(projLog[i - 1].models)
                   \/ "model" \in PropKeys(projLog[i - 1].was)
              /\ Out(projLog[i]).required = Out(projLog[i - 1]).required

\* no shape to start from; the list applied twice, then another list
C17_Witness ==
  /\ Len(projLog) = 3
  /\ StartShape = NoParams
  /\ projLog[1].op = "addModelField"
  /\ projLog[2].op = "addModelField"
  /\ projLog[3].op = "addModelField"
  /\ Len(projLog[1].models) = 2
  /\ projLog[2].models = projLog[1].models
  /\ Len(projLog[3].models) = 1
  /\ Out(projLog[1]).required = <<"model">>
  /\ Out(projLog[3]) = Out(projLog[1])
  /\ Out(projLog[3]).props["model"].enum = <<"fast", "smart">>

(***************************************************************************)
(* C18: agent construction fails with a validation error exactly when the  *)
(* name is missing or shorter than 5 characters or the description is      *)
(* missing or shorter than 20 characters; it succeeds at the boundary, a   *)
(* name of 5 and a description of 20 characters; a failed construction     *)
(* exposes no agent.                                                       *)
(***************************************************************************)
MissingOrShorter(s, n) == ~s.def \/ Len(s.text) < n

BadArguments ==
  \/ MissingOrShorter(ctorArgs.name, MinNameLength)
  \/ MissingOrShorter(ctorArgs.description, MinDescriptionLength)

C19_DescriptionsInStep ==
  gpc = "built" =>
    /\ agent.description.def
    /\ Len(agent.description.text) >= MinDescriptionLength
    /\ agent.func.description = agent.description
    /\ lastOp.op = "getFunction" => exposed.description = agent.description
    /\ lastOp.op = "setDescription" =>
         /\ lastOp.failed = MissingOrShorter(lastOp.input, MinDescriptionLength)
         /\ lastOp.failed =>
              /\ lastOp.msg = DescriptionMsg
              /\ Descriptions(agent) = lastOp.before.descriptions
         /\ ~lastOp.failed => Descriptions(agent) = <<lastOp.input, lastOp.input>>

\* a description of 20 characters was set, the callable was fetched, and a
\* description of 19 characters was then refused
C19_Witness ==
  /\ gpc = "built"
  /\ lastOp.op = "setDescription"
  /\ lastOp.failed
  /\ lastOp.input = Defined(Rep("e", MinDescriptionLength - 1))
  /\ ctorArgs.description = Defined(Rep("g", MinDescriptionLength + 1))
  /\ agent.description = Defined(Rep("e", MinDescriptionLength))
  /\ exposed.exists
  /\ exposed.description = Defined(Rep("e", MinDescriptionLength))

(***************************************************************************)
(* C20: invoking the callable getFunction returned, when the agent has no  *)
(* bound service and the options supply none, fails with "AI service is    *)
(* required" and does not delegate to forward; otherwise it delegates to   *)
(* forward exactly once, with the agent's own service when one is bound    *)
(* and the supplied one otherwise, with the input values less their        *)
(* "model" key, and with the model passed in the options.                  *)
(***************************************************************************)
NoServiceAtAll ==
  /\ ~agent.ai.bound
  /\ ~lastOp.input.options.def \/ lastOp.input.options.ai = "undefined"

C20_InvokeResolvesService ==
  lastOp.op = "invoke" =>
    IF NoServiceAtAll
    THEN /\ lastOp.failed
         /\ lastOp.msg = ServiceRequiredMsg
         /\ ~lastOp.forward.made
         /\ forwardCount = lastOp.before.forwards
    ELSE /\ ~lastOp.failed
         /\ lastOp.forward.made
         /\ forwardCount = lastOp.before.forwards + 1
         /\ lastOp.forward.parentAi = (IF agent.ai.bound THEN "own" ELSE "supplied")
         /\ lastOp.forward.ai = (IF agent.ai.bound THEN "own" ELSE "supplied")
         /\ "model" \notin DOMAIN lastOp.forward.values
         /\ DOMAIN lastOp.forward.values = (DOMAIN lastOp.input.values) \ {"model"}
         /\ \A k \in DOMAIN lastOp.forward.values :
              lastOp.forward.values[k] = lastOp.input.values[k]
         /\ lastOp.forward.model = ValueAt(lastOp.input.values, "model")

\* a bound agent is handed another service and a model in the options: its
\* own service is used and the model of the values replaces the options'
C20_Witness ==
  /\ lastOp.op = "invoke"
  /\ agent.ai.bound
  /\ lastOp.input.options = [def |-> TRUE, ai |-> "supplied", model |-> "smart"]
  /\ lastOp.input.values = [k \in {"region", "model"} |-> IF k = "model" THEN "fast" ELSE "x"]
  /\ lastOp.forward.made
  /\ lastOp.forward.ai = "own"
  /\ lastOp.forward.values = [k \in {"region"} |-> "x"]
  /\ lastOp.forward.model = "fast"
  /\ forwardCount = 2

(***************************************************************************)
(* C21: on every forward / streamingForward invocation the callables       *)
(* handed to the program are the union of the agent's directly attached    *)
(* callables and one adapted callable per child agent, the children in     *)
(* attachment order: no attached callable and no child callable is         *)
(* missing, also when the caller supplies callables in the options.        *)
(***************************************************************************)
HandedNames == {handover.options.functions.list[k].name :
                  k \in 1..Len(handover.options.functions.list)}

C21_AllCallablesHandedOver ==
  handover.kind # "none" =>
    LET handed == handover.options.functions.list
        attached == owner.functions.list
        adaptedChildren == AgentFuncs(owner, handover.ai, handover.values)
    IN  /\ \A k \in 1..Len(attached) : attached[k].name \in HandedNames
        /\ Len(handed) >= Len(adaptedChildren)
        /\ SubSeq(handed, Len(handed) - Len(adaptedChildren) + 1, Len(handed))
             = adaptedChildren

(***************************************************************************)
(* C22: every generate run that ends in a fatal error (empty response,     *)
(* duplicate response, step budget exceeded, syntax repair exhausted) has  *)
(* the error message recorded on the run's current trace before the error  *)
(* reaches the caller, and on both success and failure the trace is logged *)
(* (and mirrored to the diagnostic sink when debug is set) before generate *)
(* returns or throws.                                                      *)
(***************************************************************************)
FatalMsgs == {EmptyMsg, DuplicateMsg, UnableMsg, MaxStepsMsg(maxSteps)}

RunEnded == pc = "done"

FailedFatally == RunEnded /\ outcome.kind = "error" /\ outcome.msg \in FatalMsgs

\* what was logged, and mirrored when debug is set, is the trace as the run
\* left it; nothing is logged while the run is under way
TraceLoggedAtEnd ==
  /\ RunEnded =>
       sink = IF debug
              THEN <<Logged("console", traces), Logged("log", traces)>>
              ELSE <<Logged("log", traces)>>
  /\ ~RunEnded => sink = <<>>

C22_ErrorRecordedThenLogged ==
  /\ FailedFatally =>
       /\ traces # <<>>
       /\ traces[Len(traces)].finalError = <<outcome.msg>>
  /\ TraceLoggedAtEnd

(***************************************************************************)
(* C22, as _generate has it: a run that ends in a fatal error has the      *)
(* error message recorded on the trace of its latest completion call when  *)
(* it made one; a run that fails before any completion call (step cap 0)   *)
(* has no trace and records the message nowhere.  On both success and      *)
(* failure the traces, with the message on them, are logged (and mirrored  *)
(* first when debug is set) before generate returns or throws.             *)
(***************************************************************************)
C22_ErrorRecordedOnLatestTrace ==
  /\ FailedFatally =>
       IF Calls("step") \cup Calls("default") \cup Calls("repair") # {}
       THEN /\ traces # <<>>
            /\ traces[Len(traces)].finalError = <<outcome.msg>>
            /\ \A k \in 1..(Len(traces) - 1) : traces[k].finalError = <<>>
       ELSE /\ traces = <<>>
            /\ outcome.msg = MaxStepsMsg(0)
  /\ RunEnded /\ outcome.kind = "value" =>
       \A k \in 1..Len(traces) : traces[k].finalError = <<>>
  /\ TraceLoggedAtEnd

C22_Witness ==
  /\ FailedFatally
  /\ outcome.msg = DuplicateMsg
  /\ debug
  /\ Len(sink) = 2
  /\ sink[2].traces[Len(traces)].finalError = <<DuplicateMsg>>

(***************************************************************************)
(* C23: a generate run leaves the configured callable list unchanged:      *)
(* after any number of sequential runs on the same AIPrompt with an output *)
(* shape declared, the configured list has the length and entries it had   *)
(* before the first run, and the callables used by each run hold the       *)
(* synthetic finalResult callable exactly once.                            *)
(***************************************************************************)
InStepLoop == pc \in {"wf_loop", "wf_await", "wf_exec"}

FinalResultPlaces(fs) == {k \in 1..Len(fs) : fs[k] = "finalResult"}

C23_ConfiguredListUnchanged ==
  (runs >= 1 /\ mode = "schema" /\ "finalResult" \notin Names(configured)) =>
    /\ functions = configured
    /\ InStepLoop => Cardinality(FinalResultPlaces(functions)) = 1

(***************************************************************************)
(* C24: during a generate run with session identifier s, every memory read *)
(* (history) and every memory write (add) of the loop, the read that       *)
(* builds the prompt of a repair completion call included, uses session    *)
(* key s; no prompt of the run holds history of another session (or of the *)
(* unkeyed default session when s is set).                                 *)
(***************************************************************************)
\* the entries that were in the memory before the run name their session
ForeignHistory(hist) ==
  {j \in 1..Len(hist) : hist[j].kind = "old" /\ hist[j].query # sessionId}

C24_SessionKeyEverywhere ==
  \A k \in LogIdx :
    /\ log[k].e \in {"call", "add"} => log[k].key = sessionId
    /\ log[k].e = "call" => ForeignHistory(log[k].prompt.hist) = {}

====
